---- MODULE Spec2Model ----
(***************************************************************************)
(* Model of expo-onboarding's OnboardingView.tsx: the link segmenter       *)
(* parseTextWithLinks, the RichText link handler, and the entrance         *)
(* animation schedule of OnboardingView / Feature.                         *)
(*                                                                         *)
(* Strings are sequences of characters; JS indices are 0-based, so the     *)
(* character at JS index i is D[i+1].                                      *)
(***************************************************************************)
EXTENDS Integers, Sequences, FiniteSets, TLC

\* ---------------------------------------------------------------- bounds
MaxLen == 3
MaxTextLen == 1
MaxLinks == 2
MaxPresses == 1

Alphabet == {"a", "b"}
Urls == {"u1", "u2"}

\* A terminating occurrence scan records at most one span per start index
\* 0..Len(D) and per link, so an array of HeapLimit spans can only be reached
\* by a scan that repeats a start index, i.e. one that never ends.
HeapLimit == MaxLinks * (MaxLen + 1) + 1

StringsUpTo(n) == UNION {[1..k -> Alphabet] : k \in 0..n}
LinkSpecs == [sectionText : StringsUpTo(MaxTextLen), sectionUrl : Urls]
LinkLists == UNION {[1..k -> LinkSpecs] : k \in 0..MaxLinks}
\* The link lists with at most one link.
ShortLinkLists == {L \in LinkLists : Len(L) <= 1}

NoUrl == "undefined"

Min(S) == CHOOSE x \in S : \A y \in S : x <= y

\* ------------------------------------------------- parseTextWithLinks

\* String.prototype.indexOf(searchString, position): position is clamped to
\* [0, length]; the empty search string is found at the clamped position.
indexOf(D, t, position) ==
    LET start == IF position < 0 THEN 0
                 ELSE IF position > Len(D) THEN Len(D) ELSE position
        hits == {i \in start..(Len(D) - Len(t)) : SubSeq(D, i + 1, i + Len(t)) = t}
    IN IF hits = {} THEN -1 ELSE Min(hits)

\* String.prototype.slice(from, to) for 0 <= from <= to <= length.
slice(D, from, to) == SubSeq(D, from + 1, to)

\* The loop resuming past the end of the previous match.
RECURSIVE scanLinkPastEnd(_, _, _, _)
scanLinkPastEnd(D, link, startIndex, linkPositions) ==
    LET index == indexOf(D, link.sectionText, startIndex) IN
    IF index = -1 THEN [threw |-> FALSE, linkPositions |-> linkPositions]
    ELSE IF Len(linkPositions) >= HeapLimit
         THEN [threw |-> TRUE, linkPositions |-> linkPositions]
    ELSE scanLinkPastEnd(D, link, index + Len(link.sectionText),
                         Append(linkPositions,
                                [start |-> index,
                                 end   |-> index + Len(link.sectionText),
                                 text  |-> link.sectionText,
                                 url   |-> link.sectionUrl]))

\* One link's while(true) loop (lines 50-63).  The loop pushes one span per
\* iteration; when the array cannot grow any more the push throws.
RECURSIVE scanLink(_, _, _, _)
scanLink(D, link, startIndex, linkPositions) ==
    LET index == indexOf(D, link.sectionText, startIndex) IN
    IF index = -1 THEN [threw |-> FALSE, linkPositions |-> linkPositions]
    ELSE IF Len(linkPositions) >= HeapLimit
         THEN [threw |-> TRUE, linkPositions |-> linkPositions]
    ELSE scanLink(D, link, index + 1,
                  Append(linkPositions,
                         [start |-> index,
                          end   |-> index + Len(link.sectionText),
                          text  |-> link.sectionText,
                          url   |-> link.sectionUrl]))

\* for (const link of links) { ... }  (lines 49-64)
RECURSIVE findAllLinkPositions(_, _, _, _)
findAllLinkPositions(D, links, k, linkPositions) ==
    IF k > Len(links) THEN [threw |-> FALSE, linkPositions |-> linkPositions]
    ELSE LET r == scanLink(D, links[k], 0, linkPositions) IN
         IF r.threw THEN r
         ELSE findAllLinkPositions(D, links, k + 1, r.linkPositions)

\* The comparator with its operands swapped.
compareStartDescending(a, b) == b.start - a.start

\* The comparator of linkPositions.sort (line 67).
compareStart(a, b) == a.start - b.start

\* Array.prototype.sort is stable: an element goes after every element that
\* does not compare greater than it.
RECURSIVE insertSorted(_, _)
insertSorted(sorted, x) ==
    IF sorted = <<>> THEN <<x>>
    ELSE IF compareStart(sorted[Len(sorted)], x) <= 0 THEN Append(sorted, x)
    ELSE Append(insertSorted(SubSeq(sorted, 1, Len(sorted) - 1), x),
                sorted[Len(sorted)])

RECURSIVE sortPositions(_)
sortPositions(ps) ==
    IF ps = <<>> THEN <<>>
    ELSE insertSorted(sortPositions(SubSeq(ps, 1, Len(ps) - 1)), ps[Len(ps)])

textSegment(content) == [type |-> "text", content |-> content, url |-> NoUrl]
linkSegment(content, url) == [type |-> "link", content |-> content, url |-> url]

\* The guard with <= for <.
hasTextBeforeOrAt(currentIndex, linkPos) == currentIndex <= linkPos.start

\* The guard of "Add text before link (if any)" (line 75).
hasTextBefore(currentIndex, linkPos) == currentIndex < linkPos.start

\* The guard off by one.
hasRemainingTextButOne(currentIndex, D) == currentIndex < Len(D) - 1

\* The guard of "Add remaining text after last link (if any)" (line 93).
hasRemainingText(currentIndex, D) == currentIndex < Len(D)

\* The segment-building loop and the trailing text (lines 70-98).
RECURSIVE buildSegments(_, _, _, _, _)
buildSegments(D, linkPositions, k, currentIndex, segments) ==
    IF k > Len(linkPositions)
    THEN IF hasRemainingText(currentIndex, D)
         THEN Append(segments, textSegment(slice(D, currentIndex, Len(D))))
         ELSE segments
    ELSE LET linkPos == linkPositions[k]
             withText == IF hasTextBefore(currentIndex, linkPos)
                         THEN Append(segments,
                                     textSegment(slice(D, currentIndex, linkPos.start)))
                         ELSE segments
         IN buildSegments(D, linkPositions, k + 1, linkPos.end,
                          Append(withText, linkSegment(linkPos.text, linkPos.url)))

\* parseTextWithLinks(description, links) (lines 32-101).  The outcome is
\* either a returned segment list or a throw out of the occurrence scan.
parseTextWithLinks(D, links) ==
    IF Len(links) = 0
    THEN [threw |-> FALSE, segments |-> <<textSegment(D)>>]
    ELSE LET found == findAllLinkPositions(D, links, 1, <<>>) IN
         IF found.threw THEN [threw |-> TRUE, segments |-> <<>>]
         ELSE [threw |-> FALSE,
               segments |-> buildSegments(D, sortPositions(found.linkPositions),
                                          1, 0, <<>>)]

\* ------------------------------------------------------------ RichText

\* The body of handleLinkPress up to the await (line 119): the calls it makes
\* to Linking.openURL.
openURLCalls(url) == <<url>>

\* handleLinkPress without its try/catch.
onOpenFailedUncaught == [alerts |-> 0, rethrown |-> TRUE]

\* The catch block of handleLinkPress (lines 120-122): what a failed open
\* leads to.
onOpenFailed == [alerts |-> 1, rethrown |-> FALSE]

\* ----------------------------------------------------- ANIMATION_CONFIG
FADE_IN_DURATION == 600
MOVE_UP_DURATION == 800
FEATURE_DURATION == 750
STAGGER_DELAY == 420
BUFFER_DELAY == 200
\* Opacity, scale and the screen-height factor are kept in hundredths.
INITIAL_SCALE == 70
FEATURE_TRANSLATE_OFFSET == 42
SCREEN_HEIGHT_FACTOR == 25
One == 100

\* ---------------------------------------------------------------- bounds
MaxFeatures == 3
MaxPropChanges == 1
ScreenHeight == 800
ClockSteps == {400}

\* ------------------------------------------------------ Animated values

\* new Animated.Value(v)
newValue(v) ==
    [value |-> v, toValue |-> v, running |-> FALSE,
     startedAt |-> -1, endsAt |-> -1, starts |-> 0]

\* Animated.timing(av, {toValue, duration}).start() at time t: any animation
\* running on av is replaced.
timingStart(av, toValue, duration, t) ==
    [value |-> av.value, toValue |-> toValue, running |-> TRUE,
     startedAt |-> t, endsAt |-> t + duration, starts |-> av.starts + 1]

\* The running animation of av reaches its end.
timingEnd(av) == [av EXCEPT !.value = av.toValue, !.running = FALSE]

\* useRef(new Animated.Value(...)) of a Feature (lines 437-438).
newFeature ==
    [alive |-> TRUE,
     opacity |-> newValue(0),
     translateY |-> newValue(FEATURE_TRANSLATE_OFFSET)]

\* ----------------------------------------------------------- the schedule

\* featureAnimationTriggerDelay (lines 257-260)
featureAnimationTriggerDelay == FADE_IN_DURATION + MOVE_UP_DURATION + BUFFER_DELAY

\* The delay of the Step 4 timer (lines 276-278).
blurViewDelay(n) == featureAnimationTriggerDelay + n * STAGGER_DELAY + BUFFER_DELAY

\* The stagger counted from 1.
animationDelayFromOne(index) == (index + 1) * STAGGER_DELAY

\* animationDelay={index * ANIMATION_CONFIG.STAGGER_DELAY} (line 365)
animationDelay(index) == index * STAGGER_DELAY

\* A callback that toggles the flag.
toggledFlag(flag) == ~flag

\* What the flag-flip callback passes to setShouldAnimateFeatures (line 263).
triggeredFlag(flag) == TRUE

\* The dependency test of the entrance effect (line 280): of its
\* dependencies only features.length can change between renders.
effectDepsChanged(oldLength, newLength) == oldLength # newLength

\* The three setTimeout calls of the entrance effect (lines 247-279), made at
\* time t by effect run number run for n features.
effectTimers(t, n, run) ==
    { [kind |-> "moveUp", due |-> t + FADE_IN_DURATION,
       index |-> 0, gen |-> 0, run |-> run],
      [kind |-> "flag", due |-> t + featureAnimationTriggerDelay,
       index |-> 0, gen |-> 0, run |-> run],
      [kind |-> "panel", due |-> t + blurViewDelay(n),
       index |-> 0, gen |-> 0, run |-> run] }

\* What the entrance effect returns as its cleanup (line 280: nothing), as the
\* set of timers that survive the cleanup.
timersAfterCleanup(ts) == ts

\* The setTimeout of a Feature's effect (lines 442-459) for instance
\* (index, gen), made at time t.
featureTimer(t, index, gen) ==
    [kind |-> "feature", due |-> t + animationDelay(index),
     index |-> index, gen |-> gen, run |-> 0]

\* ----------------------------------------------------------------- state
VARIABLES
    description,            \* RichText prop
    links,                  \* RichText prop
    rich,                   \* "unrendered", "rendered", or "threw"
    segments,               \* the memoised parseTextWithLinks result
    handlers,               \* handleLinkPress invocations, in call order
    openCalls,              \* the urls passed to Linking.openURL, in call order
    alerts,                 \* number of alert('Could not open link') calls
    now,                    \* time since mount
    mounted,                \* the OnboardingView instance is mounted
    featureCount,           \* features.length of the latest render
    propChanges,            \* number of re-renders with new props so far
    shouldAnimateFeatures,  \* the useState flag (line 227)
    iconTitleOpacity, iconTitleScale, iconTitleTranslateY, blurViewOpacity,
    feat,                   \* feat[i]: the Feature instances mounted with key i
    timers,                 \* pending setTimeout callbacks
    platformOS,             \* Platform.OS
    hasIconComponent,       \* the Feature was given an IconComponent prop
    iconShown               \* the icon element the Feature rendered, or "none"

iconVars == <<platformOS, hasIconComponent, iconShown>>
richVars == <<description, links, rich, segments, handlers, openCalls, alerts,
              platformOS, hasIconComponent, iconShown>>
animVars == <<iconTitleOpacity, iconTitleScale, iconTitleTranslateY,
              blurViewOpacity, feat>>
viewVars == <<now, mounted, featureCount, propChanges, shouldAnimateFeatures,
              iconTitleOpacity, iconTitleScale, iconTitleTranslateY,
              blurViewOpacity, feat, timers>>
vars == <<description, links, rich, segments, handlers, openCalls, alerts,
          now, mounted, featureCount, propChanges, shouldAnimateFeatures,
          iconTitleOpacity, iconTitleScale, iconTitleTranslateY,
          blurViewOpacity, feat, timers,
          platformOS, hasIconComponent, iconShown>>

FeatureIndexes == 0..(MaxFeatures - 1)

\* The OnboardingView state right after the first render and its effects
\* (lines 219-280, 354-368) with n features.
MountedView(n) ==
    /\ now = 0
    /\ mounted = TRUE
    /\ featureCount = n
    /\ propChanges = 0
    /\ shouldAnimateFeatures = FALSE
    /\ iconTitleOpacity = timingStart(newValue(0), One, FADE_IN_DURATION, 0)
    /\ iconTitleScale = timingStart(newValue(INITIAL_SCALE), One, FADE_IN_DURATION, 0)
    /\ iconTitleTranslateY = newValue((ScreenHeight * SCREEN_HEIGHT_FACTOR) \div 100)
    /\ blurViewOpacity = newValue(0)
    /\ feat = [i \in FeatureIndexes |-> IF i < n THEN <<newFeature>> ELSE <<>>]
    /\ timers = effectTimers(0, n, 0)

\* A RichText before its first render.
UnrenderedText(D, L) ==
    /\ description = D
    /\ links = L
    /\ rich = "unrendered"
    /\ segments = <<>>
    /\ handlers = <<>>
    /\ openCalls = <<>>
    /\ alerts = 0

\* ------------------------------------------------------------ Feature icon

\* The values of Platform.OS.
Platforms == {"ios", "android", "web"}

\* The icon element of a Feature (lines 506-521) chosen without looking at
\* the platform first.
iconVariantCustomFirst(os, hasIcon) ==
    IF hasIcon THEN "IconComponent"
    ELSE IF os = "android" THEN "circle" ELSE "SymbolView"

\* The icon element of a Feature (lines 462, 506-521).
iconVariant(os, hasIcon) ==
    IF os = "android"
    THEN IF hasIcon THEN "IconComponent" ELSE "circle"
    ELSE "SymbolView"

\* A Feature before its first render, on platform os, given an IconComponent
\* or not.
UnrenderedIcon(os, hasIcon) ==
    /\ platformOS = os
    /\ hasIconComponent = hasIcon
    /\ iconShown = "none"

\* The Feature renders its icon (lines 506-521).
RenderIcon ==
    /\ iconShown = "none"
    /\ iconShown' = iconVariant(platformOS, hasIconComponent)
    /\ UNCHANGED <<platformOS, hasIconComponent>>
    /\ UNCHANGED <<description, links, rich, segments, handlers, openCalls, alerts>>
    /\ UNCHANGED viewVars

\* ------------------------------------------------------ RichText actions

\* useMemo(() => parseTextWithLinks(description, links), ...) (line 115)
Render ==
    /\ rich = "unrendered"
    /\ LET r == parseTextWithLinks(description, links) IN
         /\ rich' = IF r.threw THEN "threw" ELSE "rendered"
         /\ segments' = r.segments
    /\ UNCHANGED <<description, links, handlers, openCalls, alerts>>
    /\ UNCHANGED viewVars
    /\ UNCHANGED iconVars

\* onPress={() => handleLinkPress(segment.url!)} on link segment number k
\* (line 137), up to the await.
PressLink(k) ==
    /\ rich = "rendered"
    /\ k \in DOMAIN segments
    /\ segments[k].type = "link"
    /\ Len(handlers) < MaxPresses
    /\ openCalls' = openCalls \o openURLCalls(segments[k].url)
    /\ handlers' = Append(handlers, [segment |-> k, state |-> "awaiting",
                                     failed |-> FALSE])
    /\ UNCHANGED <<description, links, rich, segments, alerts>>
    /\ UNCHANGED viewVars
    /\ UNCHANGED iconVars

\* Linking.openURL resolves for invocation h.
OpenSucceeds(h) ==
    /\ h \in DOMAIN handlers
    /\ handlers[h].state = "awaiting"
    /\ handlers' = [handlers EXCEPT ![h].state = "returned"]
    /\ UNCHANGED <<description, links, rich, segments, openCalls, alerts>>
    /\ UNCHANGED viewVars
    /\ UNCHANGED iconVars

\* Linking.openURL rejects for invocation h: the catch block runs.
OpenFails(h) ==
    /\ h \in DOMAIN handlers
    /\ handlers[h].state = "awaiting"
    /\ alerts' = alerts + onOpenFailed.alerts
    /\ handlers' = [handlers EXCEPT
                      ![h].state = IF onOpenFailed.rethrown THEN "rejected"
                                   ELSE "returned",
                      ![h].failed = TRUE]
    /\ UNCHANGED <<description, links, rich, segments, openCalls>>
    /\ UNCHANGED viewVars
    /\ UNCHANGED iconVars

\* ------------------------------------------------ OnboardingView actions

\* The instances (index, generation) of Feature created so far.
FeatureInstances == {<<i, g>> \in FeatureIndexes \X (1..(MaxPropChanges + 1)) :
                        g <= Len(feat[i])}

\* The end times of the animations in flight.
runningEnds ==
    {av.endsAt : av \in {v \in {iconTitleOpacity, iconTitleScale,
                                 iconTitleTranslateY, blurViewOpacity} : v.running}}
    \cup {feat[ig[1]][ig[2]].opacity.endsAt :
             ig \in {x \in FeatureInstances : feat[x[1]][x[2]].opacity.running}}

pendingDues == {t.due : t \in timers} \cup runningEnds

\* The time of the next timer callback or animation end.
nextDue == Min(pendingDues)

\* The Feature effect without its test of shouldAnimate.
featureEffectTimersUngated(t, shouldAnimate, instances) ==
    {[kind |-> "feature", due |-> t + animationDelay(ig[1]),
      index |-> ig[1], gen |-> ig[2], run |-> 0] : ig \in instances}

\* The Feature effect (lines 441-460) run at time t for the instances in
\* mountedNow, given the shouldAnimate prop they are rendered with.
featureEffectTimers(t, shouldAnimate, instances) ==
    IF shouldAnimate
    THEN {featureTimer(t, ig[1], ig[2]) : ig \in instances}
    ELSE {}

\* Time passes without any callback becoming due.
Advance(d) ==
    /\ pendingDues # {}
    /\ now + d <= nextDue
    /\ now' = now + d
    /\ UNCHANGED <<mounted, featureCount, propChanges, shouldAnimateFeatures,
                   iconTitleOpacity, iconTitleScale, iconTitleTranslateY,
                   blurViewOpacity, feat, timers>>
    /\ UNCHANGED richVars

\* Step 2 callback (lines 247-254).
FireMoveUp(t) ==
    /\ t \in timers /\ t.kind = "moveUp" /\ t.due = nextDue
    /\ now' = t.due
    /\ timers' = timers \ {t}
    /\ iconTitleTranslateY' =
          timingStart(iconTitleTranslateY, 0, MOVE_UP_DURATION, t.due)
    /\ UNCHANGED <<mounted, featureCount, propChanges, shouldAnimateFeatures,
                   iconTitleOpacity, iconTitleScale, blurViewOpacity, feat>>
    /\ UNCHANGED richVars

\* Step 3 callback (lines 262-264): a state update of an unmounted component
\* is dropped; an update to an equal value causes no render; otherwise the
\* view re-renders, every Feature gets shouldAnimate = true and its effect
\* runs (lines 366, 441-460).
FireFlag(t) ==
    /\ t \in timers /\ t.kind = "flag" /\ t.due = nextDue
    /\ now' = t.due
    /\ LET newFlag == IF mounted THEN triggeredFlag(shouldAnimateFeatures)
                      ELSE shouldAnimateFeatures
           live == {ig \in FeatureInstances : feat[ig[1]][ig[2]].alive}
       IN /\ shouldAnimateFeatures' = newFlag
          /\ timers' = (timers \ {t}) \cup
                 (IF newFlag # shouldAnimateFeatures
                  THEN featureEffectTimers(t.due, newFlag, live)
                  ELSE {})
    /\ UNCHANGED <<mounted, featureCount, propChanges, iconTitleOpacity,
                   iconTitleScale, iconTitleTranslateY, blurViewOpacity, feat>>
    /\ UNCHANGED richVars

\* Step 4 callback (lines 267-275).
FirePanel(t) ==
    /\ t \in timers /\ t.kind = "panel" /\ t.due = nextDue
    /\ now' = t.due
    /\ timers' = timers \ {t}
    /\ blurViewOpacity' = timingStart(blurViewOpacity, One, FEATURE_DURATION, t.due)
    /\ UNCHANGED <<mounted, featureCount, propChanges, shouldAnimateFeatures,
                   iconTitleOpacity, iconTitleScale, iconTitleTranslateY, feat>>
    /\ UNCHANGED richVars

\* A Feature's timer callback (lines 443-458): Animated.parallel of the fade
\* and the rise of the instance that set the timer.
FireFeature(t) ==
    /\ t \in timers /\ t.kind = "feature" /\ t.due = nextDue
    /\ now' = t.due
    /\ timers' = timers \ {t}
    /\ feat' = [feat EXCEPT ![t.index][t.gen] =
                  [@ EXCEPT
                     !.opacity = timingStart(@, One, FEATURE_DURATION, t.due),
                     !.translateY = timingStart(@, 0, FEATURE_DURATION, t.due)]]
    /\ UNCHANGED <<mounted, featureCount, propChanges, shouldAnimateFeatures,
                   iconTitleOpacity, iconTitleScale, iconTitleTranslateY,
                   blurViewOpacity>>
    /\ UNCHANGED richVars

\* An animation of the view reaches its end value.
FinishIconTitleOpacity ==
    /\ iconTitleOpacity.running /\ iconTitleOpacity.endsAt = nextDue
    /\ now' = nextDue
    /\ iconTitleOpacity' = timingEnd(iconTitleOpacity)
    /\ UNCHANGED <<mounted, featureCount, propChanges, shouldAnimateFeatures,
                   iconTitleScale, iconTitleTranslateY, blurViewOpacity, feat,
                   timers>>
    /\ UNCHANGED richVars

FinishIconTitleScale ==
    /\ iconTitleScale.running /\ iconTitleScale.endsAt = nextDue
    /\ now' = nextDue
    /\ iconTitleScale' = timingEnd(iconTitleScale)
    /\ UNCHANGED <<mounted, featureCount, propChanges, shouldAnimateFeatures,
                   iconTitleOpacity, iconTitleTranslateY, blurViewOpacity, feat,
                   timers>>
    /\ UNCHANGED richVars

FinishIconTitleTranslateY ==
    /\ iconTitleTranslateY.running /\ iconTitleTranslateY.endsAt = nextDue
    /\ now' = nextDue
    /\ iconTitleTranslateY' = timingEnd(iconTitleTranslateY)
    /\ UNCHANGED <<mounted, featureCount, propChanges, shouldAnimateFeatures,
                   iconTitleOpacity, iconTitleScale, blurViewOpacity, feat,
                   timers>>
    /\ UNCHANGED richVars

FinishBlurViewOpacity ==
    /\ blurViewOpacity.running /\ blurViewOpacity.endsAt = nextDue
    /\ now' = nextDue
    /\ blurViewOpacity' = timingEnd(blurViewOpacity)
    /\ UNCHANGED <<mounted, featureCount, propChanges, shouldAnimateFeatures,
                   iconTitleOpacity, iconTitleScale, iconTitleTranslateY, feat,
                   timers>>
    /\ UNCHANGED richVars

\* The Animated.parallel of Feature instance (i, g) reaches its end values.
FinishFeature(i, g) ==
    /\ <<i, g>> \in FeatureInstances
    /\ feat[i][g].opacity.running /\ feat[i][g].opacity.endsAt = nextDue
    /\ now' = nextDue
    /\ feat' = [feat EXCEPT ![i][g] =
                  [@ EXCEPT !.opacity = timingEnd(@),
                            !.translateY = timingEnd(@)]]
    /\ UNCHANGED <<mounted, featureCount, propChanges, shouldAnimateFeatures,
                   iconTitleOpacity, iconTitleScale, iconTitleTranslateY,
                   blurViewOpacity, timers>>
    /\ UNCHANGED richVars

\* The parent renders OnboardingView again with a features array of length n.
\* Features whose key is gone unmount, new keys mount fresh instances whose
\* effect runs with the current flag, and the entrance effect runs again when
\* its dependencies changed (line 280).
SetProps(n) ==
    /\ mounted
    /\ propChanges < MaxPropChanges
    /\ propChanges' = propChanges + 1
    /\ featureCount' = n
    /\ LET added == {i \in FeatureIndexes : featureCount <= i /\ i < n}
           removed == {i \in FeatureIndexes : n <= i /\ i < featureCount}
           rerun == effectDepsChanged(featureCount, n)
       IN /\ feat' = [i \in FeatureIndexes |->
                        IF i \in added THEN Append(feat[i], newFeature)
                        ELSE IF i \in removed
                        THEN [feat[i] EXCEPT ![Len(feat[i])].alive = FALSE]
                        ELSE feat[i]]
          /\ timers' =
                (IF rerun THEN timersAfterCleanup(timers) ELSE timers)
                \cup featureEffectTimers(now, shouldAnimateFeatures,
                                         {<<i, Len(feat[i]) + 1>> : i \in added})
                \cup (IF rerun THEN effectTimers(now, n, propChanges + 1) ELSE {})
          /\ iconTitleOpacity' =
                IF rerun THEN timingStart(iconTitleOpacity, One, FADE_IN_DURATION, now)
                ELSE iconTitleOpacity
          /\ iconTitleScale' =
                IF rerun THEN timingStart(iconTitleScale, One, FADE_IN_DURATION, now)
                ELSE iconTitleScale
    /\ UNCHANGED <<now, mounted, shouldAnimateFeatures, iconTitleTranslateY,
                   blurViewOpacity>>
    /\ UNCHANGED richVars

\* The screen instance is unmounted: its Features unmount with it, and the
\* effects' cleanups run (none is returned, lines 280 and 460).
Unmount ==
    /\ mounted
    /\ mounted' = FALSE
    /\ feat' = [i \in FeatureIndexes |->
                  [g \in DOMAIN feat[i] |-> [feat[i][g] EXCEPT !.alive = FALSE]]]
    /\ timers' = timersAfterCleanup(timers)
    /\ UNCHANGED <<now, featureCount, propChanges, shouldAnimateFeatures,
                   iconTitleOpacity, iconTitleScale, iconTitleTranslateY,
                   blurViewOpacity>>
    /\ UNCHANGED richVars

\* ------------------------------------------------------- specifications

\* The component: one mount of OnboardingView with any number of features.
Init ==
    /\ \E n \in 0..MaxFeatures : MountedView(n)
    /\ UnrenderedText(<<>>, <<>>)
    /\ UnrenderedIcon("ios", FALSE)

Next ==
    \/ \E d \in ClockSteps : Advance(d)
    \/ \E t \in timers : FireMoveUp(t)
    \/ \E t \in timers : FireFlag(t)
    \/ \E t \in timers : FirePanel(t)
    \/ \E t \in timers : FireFeature(t)
    \/ FinishIconTitleOpacity
    \/ FinishIconTitleScale
    \/ FinishIconTitleTranslateY
    \/ FinishBlurViewOpacity
    \/ \E i \in FeatureIndexes : \E g \in 1..(MaxPropChanges + 1) : FinishFeature(i, g)
    \/ \E n \in 0..MaxFeatures : SetProps(n)
    \/ Unmount

Spec == Init /\ [][Next]_vars

\* A timer callback runs or an animation reaches its end.
TimerStep ==
    \/ \E t \in timers : FireMoveUp(t)
    \/ \E t \in timers : FireFlag(t)
    \/ \E t \in timers : FirePanel(t)
    \/ \E t \in timers : FireFeature(t)
    \/ FinishIconTitleOpacity
    \/ FinishIconTitleScale
    \/ FinishIconTitleTranslateY
    \/ FinishBlurViewOpacity
    \/ \E i \in FeatureIndexes : \E g \in 1..(MaxPropChanges + 1) : FinishFeature(i, g)

\* The steps of a screen that stays mounted.
MountedNext ==
    \/ \E d \in ClockSteps : Advance(d)
    \/ TimerStep
    \/ \E n \in 0..MaxFeatures : SetProps(n)

\* A screen that stays mounted, on an event loop that runs every timer
\* callback that is due and an animation driver that brings every started
\* animation to its end.
FairSpec == Init /\ [][MountedNext]_vars /\ WF_vars(TimerStep)

\* The segmenter: one RichText with any description and link list.
TextInit ==
    /\ \E D \in StringsUpTo(MaxLen) : \E L \in LinkLists : UnrenderedText(D, L)
    /\ MountedView(0)
    /\ UnrenderedIcon("ios", FALSE)

TextNext == Render

TextSpec == TextInit /\ [][TextNext]_vars

\* The link handler: one RichText with any description and at most one link
\* (the handler sees the link list only through the url of the pressed
\* segment), whose link segments are pressed.
LinkInit ==
    /\ \E D \in StringsUpTo(MaxLen) : \E L \in ShortLinkLists : UnrenderedText(D, L)
    /\ MountedView(0)
    /\ UnrenderedIcon("ios", FALSE)

LinkNext ==
    \/ Render
    \/ \E k \in 1..HeapLimit : PressLink(k)
    \/ \E h \in 1..MaxPresses : OpenSucceeds(h)
    \/ \E h \in 1..MaxPresses : OpenFails(h)

LinkSpec == LinkInit /\ [][LinkNext]_vars

\* One Feature row: its icon and its RichText, on any platform, with or
\* without an IconComponent.
FeatureInit ==
    /\ \E D \in StringsUpTo(MaxLen) : \E L \in ShortLinkLists : UnrenderedText(D, L)
    /\ MountedView(0)
    /\ \E os \in Platforms : \E hasIcon \in BOOLEAN : UnrenderedIcon(os, hasIcon)

FeatureNext ==
    \/ RenderIcon
    \/ Render

FeatureSpec == FeatureInit /\ [][FeatureNext]_vars

\* ------------------------------------------------ properties: segmenter

\* The contents of a segment list, concatenated in order.
RECURSIVE concatContents(_)
concatContents(segs) ==
    IF segs = <<>> THEN <<>>
    ELSE segs[1].content \o concatContents(SubSeq(segs, 2, Len(segs)))

\* t occurs in D at (0-based) position s.
occursAt(t, D, s) ==
    /\ 0 <= s /\ s + Len(t) <= Len(D)
    /\ SubSeq(D, s + 1, s + Len(t)) = t

occursIn(t, D) == \E s \in 0..Len(D) : occursAt(t, D, s)

\* Every (link, start) pair at which a link text occurs in the description.
Occurrences ==
    {o \in (DOMAIN links) \X (0..Len(description)) :
        occursAt(links[o[1]].sectionText, description, o[2])}

occEnd(o) == o[2] + Len(links[o[1]].sectionText)

PairwiseDisjoint ==
    \A o1, o2 \in Occurrences :
        o1 # o2 => (occEnd(o1) <= o2[2] \/ occEnd(o2) <= o1[2])

\* The link segments of a segment list, in output order.
RECURSIVE linkSegmentsOf(_)
linkSegmentsOf(segs) ==
    IF segs = <<>> THEN <<>>
    ELSE (IF segs[1].type = "link" THEN <<segs[1]>> ELSE <<>>)
         \o linkSegmentsOf(SubSeq(segs, 2, Len(segs)))

\* The occurrences in O as link segments, by increasing start position
\* (used where starts are pairwise distinct).
RECURSIVE byPosition(_)
byPosition(O) ==
    IF O = {} THEN <<>>
    ELSE LET o == CHOOSE x \in O : \A y \in O : x[2] <= y[2]
         IN <<linkSegment(links[o[1]].sectionText, links[o[1]].sectionUrl)>>
            \o byPosition(O \ {o})

IndexPermutations(n) == {p \in [1..n -> 1..n] : \A i, j \in 1..n : p[i] = p[j] => i = j}

\* C1: whenever parseTextWithLinks returns, the contents of the returned
\* segments, concatenated in order, are exactly the description, overlapping
\* occurrences included.
C1_ConcatReproducesDescription ==
    rich = "rendered" => concatContents(segments) = description

\* C2: parseTextWithLinks is total: for every description and link list
\* (empty link texts included) the occurrence scan ends and the call returns;
\* it never runs until the span array cannot grow.
C2_ParseReturns == rich # "threw"

\* C7 as stated: for every description, the empty one included, and every
\* non-empty link list none of whose texts occurs in it, the result is that
\* of the empty link list: the single text segment holding the description.
C7_NoOccurrenceAsNoLinks ==
    (/\ rich = "rendered"
     /\ Len(links) > 0
     /\ \A k \in DOMAIN links : ~occursIn(links[k].sectionText, description))
    => /\ segments = parseTextWithLinks(description, <<>>).segments
       /\ segments = <<textSegment(description)>>

\* C7 amended: the same for every non-empty description; for the empty
\* description the result is the empty segment list.
C7_NoOccurrenceNonEmpty ==
    (/\ rich = "rendered"
     /\ Len(links) > 0
     /\ \A k \in DOMAIN links : ~occursIn(links[k].sectionText, description))
    => IF description # <<>>
       THEN /\ segments = parseTextWithLinks(description, <<>>).segments
            /\ segments = <<textSegment(description)>>
       ELSE segments = <<>>

C7_Witness ==
    /\ rich = "rendered"
    /\ Len(links) = 2
    /\ \A k \in DOMAIN links : ~occursIn(links[k].sectionText, description)
    /\ Len(description) = 1
    /\ segments = <<textSegment(description)>>

\* C8: when the occurrences of the link texts are pairwise disjoint, the link
\* segments of the result are the occurrences in increasing order of start
\* position, and every permutation of the link list gives the same result.
C8_OrderedByPosition ==
    (rich = "rendered" /\ Len(links) > 0 /\ PairwiseDisjoint)
    => /\ linkSegmentsOf(segments) = byPosition(Occurrences)
       /\ \A p \in IndexPermutations(Len(links)) :
             LET permuted == [i \in 1..Len(links) |-> links[p[i]]]
                 r == parseTextWithLinks(description, permuted)
             IN ~r.threw /\ r.segments = segments

\* Two links, the one declared first occurring after the one declared second.
C8_Witness ==
    /\ rich = "rendered"
    /\ Len(links) = 2
    /\ PairwiseDisjoint
    /\ \E o1, o2 \in Occurrences : o1[1] = 1 /\ o2[1] = 2 /\ o2[2] < o1[2]
    /\ Len(linkSegmentsOf(segments)) >= 2

\* C9: with a non-empty link list no returned text segment is empty and no
\* two text segments are next to each other.
C9_NoEmptyOrAdjacentText ==
    (rich = "rendered" /\ Len(links) > 0)
    => /\ \A k \in DOMAIN segments :
             segments[k].type = "text" => segments[k].content # <<>>
       /\ \A k \in 1..(Len(segments) - 1) :
             ~(segments[k].type = "text" /\ segments[k + 1].type = "text")

\* Two link matches with a zero-length gap between them, the second ending
\* the description.
C9_Witness ==
    /\ rich = "rendered"
    /\ Len(segments) >= 2
    /\ segments[Len(segments) - 1].type = "link"
    /\ segments[Len(segments)].type = "link"
    /\ \E o1, o2 \in Occurrences :
          /\ occEnd(o1) = o2[2]
          /\ occEnd(o2) = Len(description)

\* ---------------------------------------------- properties: link handler

LinkActivationOK ==
    /\ Len(openCalls) = Len(handlers)
    /\ \A h \in DOMAIN handlers :
          /\ h \in DOMAIN openCalls
          /\ openCalls[h] = segments[handlers[h].segment].url
          /\ handlers[h].state # "rejected"
    /\ alerts = Cardinality({h \in DOMAIN handlers : handlers[h].failed})

\* C10: every step of a link activation (the press, the open succeeding, the
\* open failing) leaves Linking.openURL called exactly once per activation
\* with the pressed segment's url, the notice shown exactly once per failed
\* open, no failure passed on to the caller, and the animation values, the
\* flag and the segment list as they were.
C10_LinkActivation ==
    [][(handlers' # handlers \/ openCalls' # openCalls \/ alerts' # alerts)
       => /\ LinkActivationOK'
          /\ UNCHANGED <<animVars, shouldAnimateFeatures, segments>>]_vars

C10_Witness ==
    /\ Len(handlers) >= 1
    /\ handlers[1].failed
    /\ handlers[1].state = "returned"
    /\ alerts = 1
    /\ openCalls[1] = "u2"

\* ------------------------------------------------ properties: schedule

\* How many times the fade+rise of the feature with key i was started.
RECURSIVE sumStarts(_, _)
sumStarts(i, g) ==
    IF g = 0 THEN 0 ELSE feat[i][g].opacity.starts + sumStarts(i, g - 1)

featureStarts == [i \in FeatureIndexes |-> sumStarts(i, Len(feat[i]))]

\* How many times each animation was started.
animStarts == <<iconTitleOpacity.starts, iconTitleScale.starts,
                iconTitleTranslateY.starts, blurViewOpacity.starts,
                [i \in FeatureIndexes |->
                    [g \in DOMAIN feat[i] |->
                        <<feat[i][g].opacity.starts, feat[i][g].translateY.starts>>]]>>

\* C3: once the screen instance is unmounted no pending callback fires: no
\* timer leaves the pending set, no animation is started on a value of the
\* instance and its flag is not written.
C3_NoCallbackAfterUnmount ==
    [][~mounted => /\ timers' = timers
                   /\ animStarts' = animStarts
                   /\ shouldAnimateFeatures' = shouldAnimateFeatures]_vars

\* C4: while the feature count is the one of the mount, feature i starts its
\* fade and its rise at 600 + 800 + 200 + i*420 and the panel starts its fade
\* at 600 + 800 + 200 + n*420 + 200; with three features the third starts at
\* 2440 and the panel at 3060.
C4_StartTimes ==
    propChanges = 0 =>
        /\ \A i \in FeatureIndexes : i < featureCount =>
              /\ feat[i][1].opacity.startedAt \in {-1, 600 + 800 + 200 + i * 420}
              /\ feat[i][1].translateY.startedAt = feat[i][1].opacity.startedAt
        /\ blurViewOpacity.startedAt \in {-1, 600 + 800 + 200 + featureCount * 420 + 200}
        /\ featureCount = 3 =>
              /\ feat[2][1].opacity.startedAt \in {-1, 2440}
              /\ blurViewOpacity.startedAt \in {-1, 3060}

C4_Witness ==
    /\ propChanges = 0
    /\ mounted
    /\ featureCount = 3
    /\ feat[0][1].opacity.startedAt = 1600
    /\ feat[1][1].opacity.startedAt = 2020
    /\ feat[2][1].opacity.startedAt = 2440
    /\ blurViewOpacity.startedAt = 3060

\* C5: the flag starts false, never goes from true back to false (so it
\* changes at most once), and is true in every mount that outlasts the
\* trigger delay, whatever re-renders and feature-count changes happen.
C5_FlagSetOnce ==
    /\ ~shouldAnimateFeatures
    /\ [][shouldAnimateFeatures => shouldAnimateFeatures']_vars
    /\ []((mounted /\ now > 600 + 800 + 200) => shouldAnimateFeatures)

\* The flag-flip callback has run a second time, after a feature-count change
\* re-ran the entrance effect.
C5_Witness ==
    /\ mounted
    /\ shouldAnimateFeatures
    /\ propChanges >= 1
    /\ iconTitleOpacity.starts >= 2
    /\ ~\E t \in timers : t.kind = "flag"

\* C6: while the screen is mounted every phase of the entrance sequence has
\* been started at most once.
C6_OneShot ==
    mounted =>
        /\ iconTitleOpacity.starts <= 1
        /\ iconTitleScale.starts <= 1
        /\ iconTitleTranslateY.starts <= 1
        /\ blurViewOpacity.starts <= 1
        /\ \A i \in FeatureIndexes : featureStarts[i] <= 1

\* ---------------------------------------------------- properties: icon

\* C11 as stated: on every platform a Feature with an IconComponent shows
\* it; without one it shows the symbolic icon off Android and the tinted
\* circle on Android.
C11_CustomIconEverywhere ==
    iconShown # "none" =>
        iconShown = (IF hasIconComponent THEN "IconComponent"
                     ELSE IF platformOS = "android" THEN "circle"
                     ELSE "SymbolView")

\* C11 amended: on Android a Feature shows its IconComponent if it has one
\* and the tinted circle otherwise; on every other platform it shows the
\* symbolic icon, with or without an IconComponent.
C11_CustomIconOnAndroid ==
    iconShown # "none" =>
        /\ platformOS = "android" =>
              iconShown = (IF hasIconComponent THEN "IconComponent" ELSE "circle")
        /\ platformOS # "android" => iconShown = "SymbolView"

\* A Feature with an IconComponent rendered off Android.
C11_Witness ==
    /\ platformOS = "ios"
    /\ hasIconComponent
    /\ iconShown = "SymbolView"

\* ------------------------------------- properties: every occurrence

\* The occurrences in O as link segments, by increasing start position and,
\* at equal starts, in the order the links are declared.
RECURSIVE byPositionThenLink(_)
byPositionThenLink(O) ==
    IF O = {} THEN <<>>
    ELSE LET o == CHOOSE x \in O : \A y \in O :
                     x[2] < y[2] \/ (x[2] = y[2] /\ x[1] <= y[1])
         IN <<linkSegment(links[o[1]].sectionText, links[o[1]].sectionUrl)>>
            \o byPositionThenLink(O \ {o})

GoGoGo == <<"g", "o", " ", "g", "o", " ", "g", "o">>
GoLink == [sectionText |-> <<"g", "o">>, sectionUrl |-> "u"]
AaLink == [sectionText |-> <<"a", "a">>, sectionUrl |-> "u"]

\* C12: with a non-empty link list of non-empty link texts the link segments
\* of the result are, one for one, the pairs (link, start) at which the
\* link's text occurs, overlapping pairs included, each with that link's text
\* and url; 'go go go' with link 'go' gives link, ' ', link, ' ', link, and
\* 'aaa' with link 'aa' gives the two overlapping links.
C12_EveryOccurrenceOnce ==
    /\ (/\ rich = "rendered"
        /\ Len(links) > 0
        /\ \A k \in DOMAIN links : links[k].sectionText # <<>>)
       => /\ Len(linkSegmentsOf(segments)) = Cardinality(Occurrences)
          /\ linkSegmentsOf(segments) = byPositionThenLink(Occurrences)
    /\ rich = "rendered" =>
          /\ parseTextWithLinks(GoGoGo, <<GoLink>>).segments
             = <<linkSegment(<<"g", "o">>, "u"), textSegment(<<" ">>),
                 linkSegment(<<"g", "o">>, "u"), textSegment(<<" ">>),
                 linkSegment(<<"g", "o">>, "u")>>
          /\ parseTextWithLinks(<<"a", "a", "a">>, <<AaLink>>).segments
             = <<linkSegment(<<"a", "a">>, "u"), linkSegment(<<"a", "a">>, "u")>>

\* Two links with the same text and different urls, occurring at two places:
\* four link segments, two per position.
C12_Witness ==
    /\ rich = "rendered"
    /\ Len(links) = 2
    /\ links[1].sectionText = <<"a">> /\ links[2].sectionText = <<"a">>
    /\ links[1].sectionUrl = "u2" /\ links[2].sectionUrl = "u1"
    /\ description = <<"a", "b", "a">>
    /\ segments = <<linkSegment(<<"a">>, "u2"), linkSegment(<<"a">>, "u1"),
                    textSegment(<<"b">>),
                    linkSegment(<<"a">>, "u2"), linkSegment(<<"a">>, "u1")>>

\* ------------------------------------- properties: order of the phases

\* The Feature instances that are mounted.
LiveFeatures == {ig \in FeatureInstances : feat[ig[1]][ig[2]].alive}

\* C13: with the feature count of the mount (at least one feature) and the
\* screen mounted, once the panel's fade has started the last feature's
\* fade+rise started at least FEATURE_DURATION (750) earlier.
C13_PanelAfterFeatures ==
    (/\ mounted
     /\ propChanges = 0
     /\ featureCount >= 1
     /\ blurViewOpacity.startedAt # -1)
    => LET last == feat[featureCount - 1][1].opacity IN
       /\ last.startedAt # -1
       /\ blurViewOpacity.startedAt >= last.startedAt + 750

\* C14: while the flag is false no Feature instance has started its
\* animation: its opacity is 0 and its offset FEATURE_TRANSLATE_OFFSET (42);
\* and among the mounted Features one with a higher index has started only
\* if every one with a lower index started, and started no later.
C14_GatedAndInOrder ==
    /\ ~shouldAnimateFeatures =>
          \A ig \in FeatureInstances :
             LET f == feat[ig[1]][ig[2]] IN
             /\ f.opacity.value = 0 /\ ~f.opacity.running /\ f.opacity.starts = 0
             /\ f.translateY.value = 42 /\ ~f.translateY.running
             /\ f.translateY.starts = 0
    /\ \A hi, lo \in LiveFeatures :
          (lo[1] < hi[1] /\ feat[hi[1]][hi[2]].opacity.startedAt # -1)
          => /\ feat[lo[1]][lo[2]].opacity.startedAt # -1
             /\ feat[lo[1]][lo[2]].opacity.startedAt
                   <= feat[hi[1]][hi[2]].opacity.startedAt

\* A Feature mounted after the flag flipped has started, after the Features
\* below it.
C14_Witness ==
    /\ mounted
    /\ shouldAnimateFeatures
    /\ propChanges >= 1
    /\ featureCount = 3
    /\ \A i \in 0..2 : feat[i][Len(feat[i])].alive
    /\ feat[0][1].opacity.startedAt = 1600
    /\ feat[2][Len(feat[2])].opacity.startedAt > 2440

\* The entrance sequence is over: the flag is set and every value of the
\* view and of its mounted Features rests at its end value.
EntranceDone ==
    /\ shouldAnimateFeatures
    /\ iconTitleOpacity.value = 100 /\ ~iconTitleOpacity.running
    /\ iconTitleScale.value = 100 /\ ~iconTitleScale.running
    /\ iconTitleTranslateY.value = 0 /\ ~iconTitleTranslateY.running
    /\ blurViewOpacity.value = 100 /\ ~blurViewOpacity.running
    /\ \A ig \in LiveFeatures :
          LET f == feat[ig[1]][ig[2]] IN
          /\ f.opacity.value = 100 /\ ~f.opacity.running
          /\ f.translateY.value = 0 /\ ~f.translateY.running

\* C15: when every due timer fires and every started animation completes, a
\* screen that stays mounted reaches, and from then on keeps, the flag true,
\* icon/title opacity and scale 1 and offset 0, every feature's opacity 1 and
\* offset 0, and the panel opacity 1.
C15_EntranceCompletes == <>[](mounted /\ EntranceDone)

\* The sequence has completed for three features after a feature-count
\* change re-ran the effect.
C15_Witness ==
    /\ mounted
    /\ EntranceDone
    /\ featureCount = 3
    /\ propChanges >= 1
    /\ iconTitleOpacity.starts >= 2
    /\ timers = {}

====
